---------------------------- MODULE Spec2Model ----------------------------
(***************************************************************************)
(* Model of src/main.py: the JmComicDownloader plugin.                     *)
(*                                                                         *)
(* One request is one run of handle_album_id on the event loop.  Code      *)
(* between two awaits runs without interleaving (asyncio), so one action   *)
(* is one such stretch of code.  The retry decorator of lines 83-84 is     *)
(* modelled by stop_after_attempt, wait_exponential and RetryOutcome.      *)
(*                                                                         *)
(* Strings are sequences of characters; a character is named by a string:  *)
(* "0" and "7" are ASCII digits, "a" is a letter and "sup2" is U+00B2      *)
(* SUPERSCRIPT TWO, for which Python's str.isdigit() is true.              *)
(***************************************************************************)
EXTENDS Integers, Sequences, FiniteSets, TLC

VARIABLES
    option_file,    \* self._option_file, as __init__ leaves it
    optionContent,  \* the file at the option path: "absent", "user" or "generated"
    optionWrites,   \* number of write_text calls on the option path
    files,          \* the artifact paths that exist on disk
    raw,            \* raw[r]: album_id of request r
    enginePlan,     \* the engine stub: how many leading calls of a request raise
    pc,             \* pc[r]: where request r is
    attempt,        \* attempt[r]: tenacity's attempt_number
    lastExc,        \* lastExc[r]: the exception the last finished attempt raised
    callerExc,      \* callerExc[r]: the exception handle_album_id caught
    result,         \* result[r]: the path _download_album returned, or NoPath
    delivered,      \* delivered[r]: the results handle_album_id yielded
    trace,          \* trace[r]: the steps r has executed, in order
    dispatches,     \* dispatches[r]: number of engine calls
    lookups,        \* lookups[r]: number of cache checks (line 94)
    descCalls,      \* descCalls[r]: number of _create_option_file calls
    waits,          \* waits[r]: the backoff delays taken
    now,            \* time.time()
    start_time,     \* start_time[r] of line 106
    artifactDelay,  \* artifactDelay[r]: the engine stub's delay d, or Never
    artifactDue,    \* artifactDue[r]: the time at which r's artifact appears
    pollEnd,        \* pollEnd[r]: the time at which r's poll loop ended
    vIn,            \* input of a stand-alone _validate_album_id call
    vOut            \* its result

vars == <<option_file, optionContent, optionWrites, files, raw, enginePlan, pc,
          attempt, lastExc, callerExc, result, delivered, trace, dispatches,
          lookups, descCalls, waits, now, start_time, artifactDelay,
          artifactDue, pollEnd, vIn, vOut>>

fsVars == <<option_file, optionContent, optionWrites, files>>
valVars == <<vIn, vOut>>
timeVars == <<now, start_time, artifactDelay, artifactDue, pollEnd>>

---------------------------------------------------------------------------
(* Bounds of the model *)

NumRequests == 2
MaxDelay == 33
MaxEngineTime == 31
ShortLen == 2
MaxRawLen == 11
MaxWaitArg == 6

(* Program constants *)

MAX_RETRY_ATTEMPTS == 3
WAIT_EXPONENTIAL_MAX == 10
FILE_TIMEOUT == 30
MAX_ID_LEN == 10
POLL_INTERVAL == 1
WAIT_MULTIPLIER == 1

PDF_SUFFIX == ".pdf"

Requests == 1..NumRequests
Never == 0 - 1
NoPath == [dir |-> "", name |-> <<>>, suffix |-> ""]

Min(a, b) == IF a < b THEN a ELSE b

---------------------------------------------------------------------------
(* Strings *)

Alphabet == {"0", "7", "a", "sup2"}

\* str.isdigit() on one character: Numeric_Type Digit or Decimal
CharIsDigit(c) == c \in {"0", "7", "sup2"}

\* the characters "0".."9"
CharIsAsciiDigit(c) == c \in {"0", "7"}

\* str.isdigit(): at least one character, and all of them digits
isdigit(s) == Len(s) > 0 /\ \A i \in 1..Len(s) : CharIsDigit(s[i])

Repeat(c, n) == [i \in 1..n |-> c]

---------------------------------------------------------------------------
(* Pure functions of the plugin *)

\* _validate_album_id (line 119)
_validate_album_id(album_id) ==
    isdigit(album_id) /\ 1 <= Len(album_id) /\ Len(album_id) <= MAX_ID_LEN

\* the test of line 128: not album_id or not self._validate_album_id(album_id)
Rejects(album_id) == album_id = <<>> \/ ~_validate_album_id(album_id)

\* expected_pdf of line 91: self.pdf_dir / f"{album_id}{self.PDF_SUFFIX}"
ExpectedPdf(album_id) == [dir |-> "pdf_dir", name |-> album_id, suffix |-> PDF_SUFFIX]

\* expected_pdf.exists() of lines 94 and 107
Exists(path, fs) == path \in fs

\* The attributes of the value __init__ binds to self._option_file (line 29 binds
\* a str literal; exists and write_text are methods of pathlib.Path, not of str)
AttrsOf(type) == IF type = "Path" THEN {"exists", "write_text"} ELSE {}

HasAttr(obj, name) == name \in AttrsOf(obj.type)

\* _create_option_file without the test of line 53, on a path that can be written
create_option_file_unguarded(obj, content) ==
    {[exc |-> "none", content |-> "generated", wrote |-> TRUE]}

\* The possible outcomes of one _create_option_file call (lines 51-81) on the
\* option file `content`: exc is the exception raised ("none": returned), content
\* is the file afterwards and wrote tells whether write_text wrote the file.
_create_option_file(obj, content) ==
    IF ~HasAttr(obj, "exists")
    THEN {[exc |-> "AttributeError", content |-> content, wrote |-> FALSE]}
    ELSE IF content # "absent"
    THEN {[exc |-> "none", content |-> content, wrote |-> FALSE]}
    ELSE {[exc |-> "none", content |-> "generated", wrote |-> TRUE],
          [exc |-> "OSError", content |-> "absent", wrote |-> FALSE]}

---------------------------------------------------------------------------
(* The retry decorator of lines 83-84 *)

\* stop=stop_after_attempt(MAX_RETRY_ATTEMPTS)
stop_after_attempt(n) == n >= MAX_RETRY_ATTEMPTS

\* wait=wait_exponential(multiplier=1, max=WAIT_EXPONENTIAL_MAX)
wait_exponential(n) == Min(WAIT_MULTIPLIER * 2 ^ (n - 1), WAIT_EXPONENTIAL_MAX)

\* What the decorated function raises once the attempts are spent: the decorator
\* is given no reraise=True, so tenacity raises RetryError around the last failure
RetryOutcome(exc) == "RetryError"

\* The message of the except clauses of lines 146-151
HandlerMessage(exc) == IF exc = "TimeoutError" THEN "timeout" ELSE "generic"

---------------------------------------------------------------------------
(* Inputs *)

\* The album ids the requests carry: accepted and rejected ones
RawIds == {<<>>, <<"7">>, <<"0", "7">>, <<"sup2">>, <<"a">>, <<"7", "a">>,
           Repeat("7", MAX_ID_LEN), Repeat("7", MAX_ID_LEN + 1)}

\* The engine stub raises in the first enginePlan calls of a request and returns
\* in the later ones
EnginePlans == 0..MAX_RETRY_ATTEMPTS

\* The artifacts that may be on disk before the first request
CachedCandidates == {ExpectedPdf(<<"7">>), ExpectedPdf(<<"0", "7">>)}

Msg(kind, path) == [kind |-> kind, path |-> path]

---------------------------------------------------------------------------
(* Initial states *)

\* __init__ (lines 22-33): line 29 binds the option path as a str
InitInstance ==
    /\ option_file = [type |-> "str", path |-> "option.yml"]
    /\ optionWrites = 0

InitWorld ==
    /\ enginePlan \in EnginePlans
    /\ optionContent \in {"absent", "user"}
    /\ files \in SUBSET CachedCandidates

InitRequests ==
    /\ raw = [r \in Requests |-> <<>>]
    /\ pc = [r \in Requests |-> "idle"]
    /\ attempt = [r \in Requests |-> 0]
    /\ lastExc = [r \in Requests |-> "none"]
    /\ callerExc = [r \in Requests |-> "none"]
    /\ result = [r \in Requests |-> NoPath]
    /\ delivered = [r \in Requests |-> <<>>]
    /\ trace = [r \in Requests |-> <<>>]
    /\ dispatches = [r \in Requests |-> 0]
    /\ lookups = [r \in Requests |-> 0]
    /\ descCalls = [r \in Requests |-> 0]
    /\ waits = [r \in Requests |-> <<>>]

InitTime ==
    /\ now = 0
    /\ start_time = [r \in Requests |-> 0]
    /\ artifactDelay = [r \in Requests |-> 0]
    /\ artifactDue = [r \in Requests |-> Never]
    /\ pollEnd = [r \in Requests |-> Never]

InitNoValidate ==
    /\ vIn = <<>>
    /\ vOut = "none"

Init == InitInstance /\ InitWorld /\ InitRequests /\ InitTime /\ InitNoValidate

---------------------------------------------------------------------------
(* How an attempt ends *)

\* Raise with the except clauses inside the retried function: every failed
\* attempt is reported to the user
RaiseReportsEveryFailure(r, exc) ==
    /\ lastExc' = [lastExc EXCEPT ![r] = exc]
    /\ result' = result
    /\ delivered' = [delivered EXCEPT ![r] = Append(@, Msg(HandlerMessage(exc), NoPath))]
    /\ IF stop_after_attempt(attempt[r])
       THEN /\ callerExc' = [callerExc EXCEPT ![r] = RetryOutcome(exc)]
            /\ pc' = [pc EXCEPT ![r] = "failed"]
            /\ waits' = waits
       ELSE /\ pc' = [pc EXCEPT ![r] = "backoff"]
            /\ waits' = [waits EXCEPT ![r] = Append(@, wait_exponential(attempt[r]))]
            /\ UNCHANGED callerExc

\* Raise without the except Exception clause of lines 149-151: what is not a
\* TimeoutError leaves handle_album_id uncaught and nothing is yielded
RaiseUncaught(r, exc) ==
    /\ lastExc' = [lastExc EXCEPT ![r] = exc]
    /\ result' = result
    /\ IF stop_after_attempt(attempt[r])
       THEN /\ callerExc' = [callerExc EXCEPT ![r] = RetryOutcome(exc)]
            /\ IF RetryOutcome(exc) = "TimeoutError"
               THEN /\ delivered' = [delivered EXCEPT
                           ![r] = Append(@, Msg("timeout", NoPath))]
                    /\ pc' = [pc EXCEPT ![r] = "failed"]
               ELSE /\ delivered' = delivered
                    /\ pc' = [pc EXCEPT ![r] = "crashed"]
            /\ waits' = waits
       ELSE /\ pc' = [pc EXCEPT ![r] = "backoff"]
            /\ waits' = [waits EXCEPT ![r] = Append(@, wait_exponential(attempt[r]))]
            /\ UNCHANGED <<callerExc, delivered>>

\* Raise with the sleep taken before the stop test: the decorator also sleeps
\* after the last attempt
RaiseWaitsAfterLast(r, exc) ==
    /\ lastExc' = [lastExc EXCEPT ![r] = exc]
    /\ result' = result
    /\ waits' = [waits EXCEPT ![r] = Append(@, wait_exponential(attempt[r]))]
    /\ IF stop_after_attempt(attempt[r])
       THEN /\ callerExc' = [callerExc EXCEPT ![r] = RetryOutcome(exc)]
            /\ delivered' = [delivered EXCEPT
                   ![r] = Append(@, Msg(HandlerMessage(RetryOutcome(exc)), NoPath))]
            /\ pc' = [pc EXCEPT ![r] = "failed"]
       ELSE /\ pc' = [pc EXCEPT ![r] = "backoff"]
            /\ UNCHANGED <<callerExc, delivered>>

\* An attempt of r raises exc: the decorator either sleeps and retries or gives
\* up, and then handle_album_id catches what it raises (lines 146-151)
Raise(r, exc) ==
    /\ lastExc' = [lastExc EXCEPT ![r] = exc]
    /\ result' = result
    /\ IF stop_after_attempt(attempt[r])
       THEN /\ callerExc' = [callerExc EXCEPT ![r] = RetryOutcome(exc)]
            /\ delivered' = [delivered EXCEPT
                   ![r] = Append(@, Msg(HandlerMessage(RetryOutcome(exc)), NoPath))]
            /\ pc' = [pc EXCEPT ![r] = "failed"]
            /\ waits' = waits
       ELSE /\ pc' = [pc EXCEPT ![r] = "backoff"]
            /\ waits' = [waits EXCEPT ![r] = Append(@, wait_exponential(attempt[r]))]
            /\ UNCHANGED <<callerExc, delivered>>

\* An attempt of r returns path: handle_album_id sends the file (lines 140-144)
Return(r, path) ==
    /\ result' = [result EXCEPT ![r] = path]
    /\ delivered' = [delivered EXCEPT ![r] = Append(@, Msg("file", path))]
    /\ pc' = [pc EXCEPT ![r] = "done"]
    /\ UNCHANGED <<lastExc, callerExc, waits>>

---------------------------------------------------------------------------
(* Actions of a request *)

\* Receive without the return of line 130: a rejected id is answered and then
\* processed all the same
ReceiveNoReturn(r) ==
    /\ pc[r] = "idle"
    /\ \E id \in RawIds :
        /\ raw' = [raw EXCEPT ![r] = id]
        /\ trace' = [trace EXCEPT ![r] = Append(@, "validate")]
        /\ delivered' = [delivered EXCEPT
               ![r] = IF Rejects(id)
                      THEN @ \o <<Msg("invalid", NoPath), Msg("ack", NoPath)>>
                      ELSE Append(@, Msg("ack", NoPath))]
        /\ pc' = [pc EXCEPT ![r] = "attempt"]
        /\ attempt' = [attempt EXCEPT ![r] = 1]
    /\ UNCHANGED <<lastExc, callerExc, result, dispatches, lookups, descCalls, waits>>
    /\ UNCHANGED <<enginePlan, fsVars, timeVars, valVars>>

\* handle_album_id up to its first await (lines 122-137)
Receive(r) ==
    /\ pc[r] = "idle"
    /\ \E id \in RawIds :
        /\ raw' = [raw EXCEPT ![r] = id]
        /\ trace' = [trace EXCEPT ![r] = Append(@, "validate")]
        /\ IF Rejects(id)
           THEN /\ delivered' = [delivered EXCEPT ![r] = Append(@, Msg("invalid", NoPath))]
                /\ pc' = [pc EXCEPT ![r] = "rejected"]
                /\ UNCHANGED attempt
           ELSE /\ delivered' = [delivered EXCEPT ![r] = Append(@, Msg("ack", NoPath))]
                /\ pc' = [pc EXCEPT ![r] = "attempt"]
                /\ attempt' = [attempt EXCEPT ![r] = 1]
    /\ UNCHANGED <<lastExc, callerExc, result, dispatches, lookups, descCalls, waits>>
    /\ UNCHANGED <<enginePlan, fsVars, timeVars, valVars>>

\* Attempt with the cache check of line 94 moved before line 88
AttemptCacheFirst(r) ==
    /\ pc[r] = "attempt"
    /\ LET expected_pdf == ExpectedPdf(raw[r]) IN
       /\ lookups' = [lookups EXCEPT ![r] = @ + 1]
       /\ IF Exists(expected_pdf, files)
          THEN /\ Return(r, expected_pdf)
               /\ trace' = [trace EXCEPT ![r] = Append(@, "cache_hit")]
               /\ UNCHANGED <<descCalls, optionContent, optionWrites, dispatches>>
          ELSE \E o \in _create_option_file(option_file, optionContent) :
               /\ descCalls' = [descCalls EXCEPT ![r] = @ + 1]
               /\ optionContent' = o.content
               /\ optionWrites' = optionWrites + (IF o.wrote THEN 1 ELSE 0)
               /\ IF o.exc # "none"
                  THEN /\ Raise(r, o.exc)
                       /\ trace' = [trace EXCEPT ![r] = @ \o <<"cache_miss", "descriptor">>]
                       /\ UNCHANGED dispatches
                  ELSE /\ pc' = [pc EXCEPT ![r] = "engine"]
                       /\ trace' = [trace EXCEPT
                              ![r] = @ \o <<"cache_miss", "descriptor", "dispatch">>]
                       /\ dispatches' = [dispatches EXCEPT ![r] = @ + 1]
                       /\ UNCHANGED <<lastExc, callerExc, result, delivered, waits>>
    /\ UNCHANGED <<option_file, files, raw, enginePlan, attempt>>
    /\ UNCHANGED <<timeVars, valVars>>

\* One attempt of _download_album up to its first await (lines 85-103)
Attempt(r) ==
    /\ pc[r] = "attempt"
    /\ \E o \in _create_option_file(option_file, optionContent) :
        LET expected_pdf == ExpectedPdf(raw[r]) IN
        /\ descCalls' = [descCalls EXCEPT ![r] = @ + 1]
        /\ optionContent' = o.content
        /\ optionWrites' = optionWrites + (IF o.wrote THEN 1 ELSE 0)
        /\ IF o.exc # "none"
           THEN /\ Raise(r, o.exc)
                /\ trace' = [trace EXCEPT ![r] = Append(@, "descriptor")]
                /\ UNCHANGED <<lookups, dispatches>>
           ELSE IF Exists(expected_pdf, files)
           THEN /\ Return(r, expected_pdf)
                /\ trace' = [trace EXCEPT ![r] = @ \o <<"descriptor", "cache_hit">>]
                /\ lookups' = [lookups EXCEPT ![r] = @ + 1]
                /\ UNCHANGED dispatches
           ELSE /\ pc' = [pc EXCEPT ![r] = "engine"]
                /\ trace' = [trace EXCEPT
                       ![r] = @ \o <<"descriptor", "cache_miss", "dispatch">>]
                /\ lookups' = [lookups EXCEPT ![r] = @ + 1]
                /\ dispatches' = [dispatches EXCEPT ![r] = @ + 1]
                /\ UNCHANGED <<lastExc, callerExc, result, delivered, waits>>
    /\ UNCHANGED <<option_file, files, raw, enginePlan, attempt>>
    /\ UNCHANGED <<timeVars, valVars>>

\* The decorator's sleep between two attempts ends (lines 83-84)
RetryWake(r) ==
    /\ pc[r] = "backoff"
    /\ pc' = [pc EXCEPT ![r] = "attempt"]
    /\ attempt' = [attempt EXCEPT ![r] = @ + 1]
    /\ UNCHANGED <<raw, enginePlan, lastExc, callerExc, result, delivered, trace,
                   dispatches, lookups, descCalls, waits>>
    /\ UNCHANGED <<fsVars, timeVars, valVars>>

Next == \E r \in Requests : Receive(r) \/ Attempt(r) \/ RetryWake(r)

Spec == Init /\ [][Next]_vars

\* The event loop runs every coroutine that is ready and every sleep ends: an
\* attempt that can start does start, a backoff that is due does end.  Nothing
\* obliges a message to arrive.
Fairness == \A r \in Requests : WF_vars(Attempt(r)) /\ WF_vars(RetryWake(r))

FairSpec == Spec /\ Fairness

---------------------------------------------------------------------------
(* The engine call and the poll loop (lines 98-114) *)

\* The files on disk at time t: the engine stub of request q creates q's
\* artifact at time due[q]
FilesAt(fs, due, t) ==
    fs \cup {ExpectedPdf(raw[q]) : q \in {x \in Requests : due[x] # Never /\ due[x] <= t}}

\* PollLoop with the test of line 109 as elapsed >= FILE_TIMEOUT
PollLoopAtTimeout(r, st, t, fs) ==
    LET expected_pdf == ExpectedPdf(raw[r])
        elapsed == t - st
    IN  IF Exists(expected_pdf, fs)
        THEN /\ Return(r, expected_pdf)
             /\ pollEnd' = [pollEnd EXCEPT ![r] = t]
        ELSE IF elapsed >= FILE_TIMEOUT
        THEN /\ Raise(r, "TimeoutError")
             /\ pollEnd' = [pollEnd EXCEPT ![r] = t]
        ELSE /\ pc' = [pc EXCEPT ![r] = "poll_sleep"]
             /\ UNCHANGED <<lastExc, callerExc, result, delivered, waits, pollEnd>>

\* PollLoop that takes the return of the engine call for the artifact: the
\* first pass of the loop returns the path without the test of line 107
PollLoopTrustsEngine(r, st, t, fs) ==
    LET expected_pdf == ExpectedPdf(raw[r])
        elapsed == t - st
    IN  IF Exists(expected_pdf, fs) \/ pc[r] = "engine"
        THEN /\ Return(r, expected_pdf)
             /\ pollEnd' = [pollEnd EXCEPT ![r] = t]
        ELSE IF elapsed > FILE_TIMEOUT
        THEN /\ Raise(r, "TimeoutError")
             /\ pollEnd' = [pollEnd EXCEPT ![r] = t]
        ELSE /\ pc' = [pc EXCEPT ![r] = "poll_sleep"]
             /\ UNCHANGED <<lastExc, callerExc, result, delivered, waits, pollEnd>>

\* The while loop of lines 107-111 from its test to the next await, entered at
\* time t with the files fs on disk; st is start_time
PollLoop(r, st, t, fs) ==
    LET expected_pdf == ExpectedPdf(raw[r])
        elapsed == t - st
    IN  IF Exists(expected_pdf, fs)
        THEN /\ Return(r, expected_pdf)
             /\ pollEnd' = [pollEnd EXCEPT ![r] = t]
        ELSE IF elapsed > FILE_TIMEOUT
        THEN /\ Raise(r, "TimeoutError")
             /\ pollEnd' = [pollEnd EXCEPT ![r] = t]
        ELSE /\ pc' = [pc EXCEPT ![r] = "poll_sleep"]
             /\ UNCHANGED <<lastExc, callerExc, result, delivered, waits, pollEnd>>

\* EngineReturn with the clock of line 106 read before the await of line 99
EngineReturnClockAtDispatch(r) ==
    /\ pc[r] = "engine"
    /\ dispatches[r] > enginePlan
    /\ \E dur \in 0..MaxEngineTime :
        LET t == now + dur
            due == [artifactDue EXCEPT
                       ![r] = IF artifactDelay[r] = Never THEN Never
                              ELSE t + artifactDelay[r]]
            fs == FilesAt(files, due, t)
        IN  /\ now' = t
            /\ start_time' = [start_time EXCEPT ![r] = now]
            /\ artifactDue' = due
            /\ files' = fs
            /\ trace' = [trace EXCEPT ![r] = Append(@, "poll")]
            /\ PollLoop(r, now, t, fs)
    /\ UNCHANGED <<option_file, optionContent, optionWrites, raw, enginePlan, attempt,
                   dispatches, lookups, descCalls, artifactDelay, valVars>>

\* The engine call of r returns after dur time units: the await of lines 99-103
\* ends, line 106 reads the clock and the loop runs up to its first sleep
EngineReturn(r) ==
    /\ pc[r] = "engine"
    /\ dispatches[r] > enginePlan
    /\ \E dur \in 0..MaxEngineTime :
        LET t == now + dur
            due == [artifactDue EXCEPT
                       ![r] = IF artifactDelay[r] = Never THEN Never
                              ELSE t + artifactDelay[r]]
            fs == FilesAt(files, due, t)
        IN  /\ now' = t
            /\ start_time' = [start_time EXCEPT ![r] = t]
            /\ artifactDue' = due
            /\ files' = fs
            /\ trace' = [trace EXCEPT ![r] = Append(@, "poll")]
            /\ PollLoop(r, t, t, fs)
    /\ UNCHANGED <<option_file, optionContent, optionWrites, raw, enginePlan, attempt,
                   dispatches, lookups, descCalls, artifactDelay, valVars>>

\* The engine call of r raises after dur time units
EngineRaise(r) ==
    /\ pc[r] = "engine"
    /\ dispatches[r] <= enginePlan
    /\ \E dur \in 0..MaxEngineTime : now' = now + dur
    /\ Raise(r, "EngineError")
    /\ UNCHANGED <<fsVars, raw, enginePlan, attempt, trace, dispatches, lookups,
                   descCalls, start_time, artifactDelay, artifactDue, pollEnd, valVars>>

\* The sleep of line 111 ends and the loop runs up to its next sleep
PollWake(r) ==
    /\ pc[r] = "poll_sleep"
    /\ LET t == now + POLL_INTERVAL
           fs == FilesAt(files, artifactDue, t)
       IN  /\ now' = t
           /\ files' = fs
           /\ PollLoop(r, start_time[r], t, fs)
    /\ UNCHANGED <<option_file, optionContent, optionWrites, raw, enginePlan, attempt,
                   trace, dispatches, lookups, descCalls, start_time, artifactDelay,
                   artifactDue, valVars>>

\* The delays of the engine stub: the artifact appears d time units after the
\* engine call returned, or never
Delays == (0..MaxDelay) \cup {Never}

\* Request 1 waits for its a-th engine call (the await of lines 99-103); the
\* a-1 calls before it raised
InitAwaitingEngine ==
    \E a \in 1..MAX_RETRY_ATTEMPTS, d \in Delays :
        LET one(x, y) == [r \in Requests |-> IF r = 1 THEN x ELSE y]
            steps[i \in 0..MAX_RETRY_ATTEMPTS] ==
                IF i = 0 THEN <<"validate">>
                ELSE steps[i - 1] \o <<"descriptor", "cache_miss", "dispatch">>
        IN  /\ enginePlan \in {k \in EnginePlans : k >= a - 1}
            /\ optionContent = "user"
            /\ raw = one(<<"7">>, <<>>)
            /\ files \in SUBSET (CachedCandidates \ {ExpectedPdf(<<"7">>)})
            /\ pc = one("engine", "idle")
            /\ attempt = one(a, 0)
            /\ lastExc = one(IF a > 1 THEN "EngineError" ELSE "none", "none")
            /\ callerExc = one("none", "none")
            /\ result = one(NoPath, NoPath)
            /\ delivered = one(<<Msg("ack", NoPath)>>, <<>>)
            /\ trace = one(steps[a], <<>>)
            /\ dispatches = one(a, 0)
            /\ lookups = one(a, 0)
            /\ descCalls = one(a, 0)
            /\ waits = one([i \in 1..(a - 1) |-> wait_exponential(i)], <<>>)
            /\ now = 0
            /\ start_time = one(0, 0)
            /\ artifactDelay = one(d, 0)
            /\ artifactDue = one(Never, Never)
            /\ pollEnd = one(Never, Never)

InitPoll == InitInstance /\ InitAwaitingEngine /\ InitNoValidate

NextPoll == \E r \in Requests : EngineReturn(r) \/ EngineRaise(r) \/ PollWake(r)

SpecPoll == InitPoll /\ [][NextPoll]_vars

---------------------------------------------------------------------------
(* Cancellation of the task that runs handle_album_id *)

\* Cancel with the CancelledError handled like the failure of an attempt
CancelAsFailure(r) ==
    /\ pc[r] \in {"engine", "poll_sleep", "backoff"}
    /\ Raise(r, "CancelledError")
    /\ trace' = [trace EXCEPT ![r] = Append(@, "cancel")]
    /\ UNCHANGED <<fsVars, raw, enginePlan, attempt, dispatches, lookups, descCalls,
                   timeVars, valVars>>

\* The caller cancels r while it is suspended in the await of lines 99-103, in
\* the sleep of line 111 or in the sleep of the decorator (lines 83-84).
\* CancelledError is not an Exception: the decorator does not retry it and
\* the handlers of lines 146-151 do not catch it. The worker thread of
\* asyncio.to_thread cannot be stopped and keeps running.
Cancel(r) ==
    /\ pc[r] \in {"engine", "poll_sleep", "backoff"}
    /\ pc' = [pc EXCEPT ![r] = IF pc[r] = "engine" THEN "cancelled_engine"
                                ELSE "cancelled"]
    /\ callerExc' = [callerExc EXCEPT ![r] = "CancelledError"]
    /\ trace' = [trace EXCEPT ![r] = Append(@, "cancel")]
    /\ UNCHANGED <<fsVars, raw, enginePlan, attempt, lastExc, result, delivered,
                   dispatches, lookups, descCalls, waits, timeVars, valVars>>

\* The worker thread of a cancelled request ends its engine call after dur
\* time units (lines 99-103): nothing awaits its outcome any more
EngineCompletes(r) ==
    /\ pc[r] = "cancelled_engine"
    /\ \E dur \in 0..MaxEngineTime :
        LET t == now + dur
            due == IF dispatches[r] > enginePlan /\ artifactDelay[r] # Never
                   THEN [artifactDue EXCEPT ![r] = t + artifactDelay[r]]
                   ELSE artifactDue
        IN  /\ now' = t
            /\ artifactDue' = due
            /\ files' = FilesAt(files, due, t)
    /\ pc' = [pc EXCEPT ![r] = "cancelled"]
    /\ trace' = [trace EXCEPT ![r] = Append(@, "engine_done")]
    /\ UNCHANGED <<option_file, optionContent, optionWrites, raw, enginePlan, attempt,
                   lastExc, callerExc, result, delivered, dispatches, lookups,
                   descCalls, waits, start_time, artifactDelay, pollEnd, valVars>>

\* Time passes until the artifact of an engine call of a cancelled request is
\* on disk
ArtifactAppears(r) ==
    /\ pc[r] = "cancelled"
    /\ artifactDue[r] # Never
    /\ artifactDue[r] > now
    /\ now' = artifactDue[r]
    /\ files' = FilesAt(files, artifactDue, artifactDue[r])
    /\ UNCHANGED <<option_file, optionContent, optionWrites, raw, enginePlan, pc,
                   attempt, lastExc, callerExc, result, delivered, trace, dispatches,
                   lookups, descCalls, waits, start_time, artifactDelay, artifactDue,
                   pollEnd, valVars>>

NextCancel ==
    \E r \in Requests :
        \/ EngineReturn(r)
        \/ EngineRaise(r)
        \/ PollWake(r)
        \/ Cancel(r)
        \/ EngineCompletes(r)
        \/ ArtifactAppears(r)

SpecCancel == InitPoll /\ [][NextCancel]_vars

---------------------------------------------------------------------------
(* _validate_album_id on its own *)

SeqsUpTo(n) == UNION {[1..m -> Alphabet] : m \in 0..n}

\* every short string, and the strings of sevens with one character replaced
ValidateInputs ==
    SeqsUpTo(ShortLen) \cup
    UNION {{[Repeat("7", n) EXCEPT ![p] = c] : p \in 1..n, c \in Alphabet} :
              n \in 1..MaxRawLen}

InitValidate ==
    /\ InitInstance
    /\ enginePlan = 0
    /\ optionContent = "absent"
    /\ files = {}
    /\ InitRequests
    /\ InitTime
    /\ vIn \in ValidateInputs
    /\ vOut = "none"

Validate ==
    /\ vOut = "none"
    /\ vOut' = IF _validate_album_id(vIn) THEN "True" ELSE "False"
    /\ UNCHANGED <<fsVars, raw, enginePlan, pc, attempt, lastExc, callerExc, result,
                   delivered, trace, dispatches, lookups, descCalls, waits, timeVars, vIn>>

NextValidate == Validate

SpecValidate == InitValidate /\ [][NextValidate]_vars

---------------------------------------------------------------------------
(* Properties *)

Terminal(r) == pc[r] \in {"done", "failed"}

Last(q) == q[Len(q)]

Has(tr, step) == \E i \in 1..Len(tr) : tr[i] = step

\* C1: a request invokes the engine at most 3 times, and with an engine that
\* raises in every call it ends Failed after exactly 3 engine calls.
C1_ThreeDispatchesThenFailed ==
    \A r \in Requests :
        /\ dispatches[r] <= MAX_RETRY_ATTEMPTS
        /\ (Terminal(r) /\ enginePlan >= MAX_RETRY_ATTEMPTS /\ ~Has(trace[r], "cache_hit"))
               => (pc[r] = "failed" /\ dispatches[r] = MAX_RETRY_ATTEMPTS)

\* C2: with a valid id, no cached artifact and an engine that raises in its
\* first k <= 2 calls and then returns with the artifact created, the request
\* ends Done with the artifact path after exactly k+1 engine calls.
C2_DoneAfterKFailures ==
    \A r \in Requests :
        (Terminal(r) /\ enginePlan < MAX_RETRY_ATTEMPTS /\ artifactDelay[r] = 0
                /\ ~Has(trace[r], "cache_hit"))
            => /\ pc[r] = "done"
               /\ result[r] = ExpectedPdf(raw[r])
               /\ dispatches[r] = enginePlan + 1
               /\ attempt[r] = enginePlan + 1

\* C3: an attempt that starts while the artifact exists returns its path and
\* does not invoke the engine; an attempt invokes the engine only if the
\* artifact was absent at its cache check.
C3_CacheHitShortCircuits ==
    [][\A r \in Requests :
          LET expected_pdf == ExpectedPdf(raw[r]) IN
          /\ (pc[r] = "attempt" /\ pc'[r] # "attempt" /\ Exists(expected_pdf, files))
                 => /\ pc'[r] = "done"
                    /\ result'[r] = expected_pdf
                    /\ dispatches'[r] = dispatches[r]
          /\ dispatches'[r] > dispatches[r] => ~Exists(expected_pdf, files)]_vars

\* C4: a request whose id is rejected is answered at once with the failure
\* message and never calls _create_option_file, checks the cache, invokes the
\* engine or starts an attempt.
C4_RejectedDoesNothing ==
    \A r \in Requests :
        (pc[r] # "idle" /\ Rejects(raw[r]))
            => /\ pc[r] = "rejected"
               /\ delivered[r] = <<Msg("invalid", NoPath)>>
               /\ descCalls[r] = 0
               /\ lookups[r] = 0
               /\ dispatches[r] = 0
               /\ attempt[r] = 0
               /\ waits[r] = <<>>
               /\ trace[r] = <<"validate">>

\* a rejected request stays as it is while another request runs to its end
C4_Witness ==
    \E r, q \in Requests :
        /\ pc[r] = "rejected" /\ raw[r] = <<"7", "a">>
        /\ pc[q] = "failed" /\ descCalls[q] = MAX_RETRY_ATTEMPTS

\* C5: validate(raw) is true exactly when raw consists of 1 to 10 characters,
\* all of them among "0".."9".
C5_ValidateIffAsciiDigits ==
    vOut # "none"
        => ((vOut = "True")
               <=> /\ 1 <= Len(vIn) /\ Len(vIn) <= 10
                   /\ \A i \in 1..Len(vIn) : CharIsAsciiDigit(vIn[i]))

PollSucceeded(r) ==
    pollEnd[r] # Never /\ pc[r] = "done" /\ result[r] = ExpectedPdf(raw[r])

PollTimedOut(r) ==
    pollEnd[r] # Never /\ pc[r] \in {"backoff", "failed"} /\ lastExc[r] = "TimeoutError"

C7_LastFailureReraised ==
    \A r \in Requests :
        pc[r] = "failed"
            => /\ callerExc[r] = lastExc[r]
               /\ lastExc[r] = "TimeoutError" => Last(delivered[r]).kind = "timeout"

\* C8: _create_option_file called with the option file absent writes it once,
\* and further calls write nothing: after any number of calls on a file that
\* was absent there has been exactly one write and the file is there.
C8_OneWriteWhenAbsent ==
    ((\E r \in Requests : descCalls[r] >= 1) /\ optionContent # "user")
        => (optionWrites = 1 /\ optionContent = "generated")

StepsInOrder(tr) ==
    \A i \in 1..Len(tr) :
        /\ (tr[i] = "validate") <=> (i = 1)
        /\ tr[i] \in {"cache_hit", "cache_miss"} => tr[i - 1] = "descriptor"
        /\ tr[i] = "dispatch" => (tr[i - 1] = "cache_miss" /\ tr[i - 2] = "descriptor")
        /\ tr[i] = "poll" => tr[i - 1] = "dispatch"

Count(tr, step) == Cardinality({i \in 1..Len(tr) : tr[i] = step})

FinalKinds == {"file", "timeout", "generic"}

\* the final results among what request r has yielded
Finals(r) == {i \in 1..Len(delivered[r]) : delivered[r][i].kind \in FinalKinds}

\* what belongs to request r
Own(r) == <<raw[r], pc[r], attempt[r], lastExc[r], callerExc[r], result[r], delivered[r],
            trace[r], dispatches[r], lookups[r], descCalls[r], waits[r]>>

\* C11: an accepted request yields exactly one final result when it ends and
\* none before: the file with the artifact path when Done, a failure message
\* without a path when Failed; after that the request does nothing more.
C11_OneFinalResult ==
    [][\A r \in Requests :
          /\ Cardinality(Finals(r))' = (IF Terminal(r)' THEN 1 ELSE 0)
          /\ pc'[r] = "done"
                 => /\ Last(delivered'[r]) = Msg("file", ExpectedPdf(raw'[r]))
                    /\ result'[r] = ExpectedPdf(raw'[r])
          /\ pc'[r] = "failed"
                 => /\ Last(delivered'[r]).kind \in {"timeout", "generic"}
                    /\ Last(delivered'[r]).path = NoPath
                    /\ result'[r] = NoPath
          /\ Terminal(r) => Own(r)' = Own(r)]_vars

\* a request has failed with its one failure message while another one is
\* still retrying
C11_Witness ==
    \E r, q \in Requests :
        /\ pc[r] = "failed"
        /\ delivered[r] = <<Msg("ack", NoPath), Msg("generic", NoPath)>>
        /\ pc[q] = "backoff" /\ attempt[q] = 2

C13_BothDispatch ==
    \A r, q \in Requests :
        (/\ r # q /\ raw[r] = raw[q] /\ ~Rejects(raw[r])
         /\ pc[r] \notin {"idle", "attempt"} /\ pc[q] \notin {"idle", "attempt"}
         /\ attempt[r] = 1 /\ attempt[q] = 1
         /\ ~Exists(ExpectedPdf(raw[r]), files))
            => /\ lookups[r] >= 1 /\ lookups[q] >= 1
               /\ dispatches[r] >= 1 /\ dispatches[q] >= 1

\* C14: a failure of the descriptor step costs one attempt and the next
\* attempt tests the option file again and gets past the step once the file is
\* there; a request whose three attempts all fail in the descriptor step ends
\* Failed without a cache check and without an engine call.
C14_DescriptorFailureRetryable ==
    [][\A r \in Requests :
          /\ (pc[r] = "attempt" /\ pc'[r] # "attempt" /\ optionContent # "absent")
                 => Last(trace'[r]) # "descriptor"
          /\ (pc[r] = "attempt" /\ pc'[r] # "attempt" /\ Last(trace'[r]) = "descriptor")
                 => /\ descCalls'[r] = attempt[r]
                    /\ pc'[r] = IF attempt[r] < MAX_RETRY_ATTEMPTS THEN "backoff" ELSE "failed"
          /\ (pc'[r] = "failed" /\ trace'[r] = <<"validate", "descriptor", "descriptor", "descriptor">>)
                 => (dispatches'[r] = 0 /\ lookups'[r] = 0)]_vars

\* C15: every retry attempt runs the cache check again before the engine call:
\* when the artifact is there at the start of a second or third attempt, the
\* attempt returns its path without an engine call.
C15_RetryChecksCache ==
    [][\A r \in Requests :
          (pc[r] = "attempt" /\ attempt[r] >= 2 /\ pc'[r] # "attempt")
              => /\ lookups'[r] = lookups[r] + 1
                 /\ Exists(ExpectedPdf(raw[r]), files)
                        => /\ pc'[r] = "done"
                           /\ result'[r] = ExpectedPdf(raw[r])
                           /\ dispatches'[r] = dispatches[r]]_vars

\* C16: a backoff delay is taken only between a failed attempt and the next
\* one (none before the first attempt, after a success or after the third
\* attempt); the delays of a request double from one attempt to the next up to
\* the cap, so they never decrease, and none exceeds 10.
C16_BackoffDelays ==
    /\ \A r \in Requests :
        /\ Len(waits[r]) = (IF pc[r] = "backoff" THEN attempt[r]
                            ELSE IF attempt[r] = 0 THEN 0 ELSE attempt[r] - 1)
        /\ Len(waits[r]) <= MAX_RETRY_ATTEMPTS - 1
        /\ \A i \in 1..Len(waits[r]) : 0 < waits[r][i] /\ waits[r][i] <= WAIT_EXPONENTIAL_MAX
        /\ \A i \in 1..(Len(waits[r]) - 1) :
               /\ waits[r][i] <= waits[r][i + 1]
               /\ waits[r][i + 1] = Min(2 * waits[r][i], WAIT_EXPONENTIAL_MAX)
    /\ \A n \in 1..MaxWaitArg :
        /\ wait_exponential(n) <= WAIT_EXPONENTIAL_MAX
        /\ wait_exponential(n) <= wait_exponential(n + 1)

\* a request has failed after two delays, the second longer than the first
C16_Witness ==
    \E r \in Requests :
        pc[r] = "failed" /\ Len(waits[r]) = 2 /\ waits[r][1] < waits[r][2]

Cancelled(r) == pc[r] \in {"cancelled", "cancelled_engine"}

Work(r) == <<attempt[r], dispatches[r], lookups[r], descCalls[r], delivered[r],
             waits[r], result[r], lastExc[r]>>

====
